---- MODULE Spec2Model ----
(***************************************************************************)
(* Model of src/src/index.ts: the OAuth 2.0 response wrappers              *)
(* OAuth2RequestResult, TokenRequestResult, DeviceAuthorizationRequestResult.*)
(*                                                                         *)
(* A JavaScript value is a tagged record [t |-> typeof, v |-> value]; a    *)
(* string is a sequence of one-character strings, so that split(" ") is    *)
(* computed and not assumed.  A thrown Error is a record carrying its      *)
(* message, split into the message template and the field name quoted in   *)
(* it.  JSON numbers are whole numbers (RFC 6749 gives expires_in and RFC  *)
(* 8628 gives interval in seconds) and timestamps are whole milliseconds.  *)
(***************************************************************************)
EXTENDS Integers, Sequences, FiniteSets

VARIABLES heap, result, clock, frame, last

vars == <<heap, result, clock, frame, last>>

(***************************************************************************)
(* Bounds of the model.                                                    *)
(***************************************************************************)
MaxKeys == 2
MaxLen == 4
MaxClock == 2

(***************************************************************************)
(* JavaScript values.                                                      *)
(***************************************************************************)
Str(s) == [t |-> "string", v |-> s]
Num(n) == [t |-> "number", v |-> n]
Bool(b) == [t |-> "boolean", v |-> b]
Null == [c |-> "null", t |-> "object", v |-> <<>>]
Arr(a) == [c |-> "Array", t |-> "object", v |-> a]
Date(ms) == [c |-> "Date", t |-> "object", v |-> ms]

TypeOf(x) == x.t

In(key, obj) == key \in DOMAIN obj

Return(x) == [ok |-> TRUE, val |-> x]

MissingOrInvalid == "Missing or invalid '_' field"
Invalid == "Invalid '_' field"

Throw(message, field) == [ok |-> FALSE, error |-> message, field |-> field]

(***************************************************************************)
(* The payloads handed to the constructors.                                *)
(***************************************************************************)
BaseKeys == {"error", "error_description", "error_uri", "state"}
TokenKeys == {"token_type", "access_token", "expires_in", "refresh_token", "scope"}
DeviceKeys == {"device_code", "user_code", "verification_uri", "expires_in", "interval"}
Keys == BaseKeys \cup TokenKeys \cup DeviceKeys

Space == " "
Alphabet == {"a", "b", Space}

RECURSIVE StringsUpTo(_)
StringsUpTo(n) ==
    IF n = 0 THEN {<<>>}
    ELSE LET shorter == StringsUpTo(n - 1)
         IN shorter \cup {Append(s, c) : s \in {x \in shorter : Len(x) = n - 1}, c \in Alphabet}

Values == {Str(<<"a", Space, "b">>), Str(<<>>), Num(10), Null}

PayloadsOver(keys, values, n) ==
    UNION {[S -> values] : S \in {T \in SUBSET keys : Cardinality(T) <= n}}

Payloads == PayloadsOver(Keys, Values, MaxKeys)

ScopeValues == {Str(s) : s \in StringsUpTo(MaxLen)} \cup {Num(10), Null}
ScopePayloads == PayloadsOver({"scope"}, ScopeValues, 1)

ExpiryValues == {Num(0), Num(1), Num(3600), Str(<<"3", "6", "0", "0">>), Null}
ExpiryPayloads == PayloadsOver({"expires_in"}, ExpiryValues, 1)

(***************************************************************************)
(* The one payload object lives on the heap at Data; a wrapper holds a     *)
(* reference to it in its only own property, body.                         *)
(***************************************************************************)
Data == "data"

Classes == {"OAuth2RequestResult", "TokenRequestResult", "DeviceAuthorizationRequestResult"}

NoResult == [class |-> "none", fields |-> <<>>]

\* this.body
Body(this, h) == h[this.fields.body]

\* Mutant: a constructor that rejects a payload without the class's fields.
constructorValidating(class, body, h) ==
    IF class = "TokenRequestResult" /\ ~In("access_token", h[body])
    THEN Throw(MissingOrInvalid, "access_token")
    ELSE Return([class |-> class, fields |-> [body |-> body]])

\* constructor(body) { this.body = body; }, inherited by both subclasses.
constructor(class, body, h) == Return([class |-> class, fields |-> [body |-> body]])

(***************************************************************************)
(* OAuth2RequestResult                                                     *)
(***************************************************************************)
hasErrorCode(this, h) ==
    Return(Bool(In("error", Body(this, h)) /\ TypeOf(Body(this, h)["error"]) = "string"))

errorCode(this, h) ==
    IF In("error", Body(this, h)) /\ TypeOf(Body(this, h)["error"]) = "string"
    THEN Return(Body(this, h)["error"])
    ELSE Throw(MissingOrInvalid, "error")

hasErrorDescription(this, h) ==
    Return(Bool(In("error_description", Body(this, h))
                /\ TypeOf(Body(this, h)["error_description"]) = "string"))

errorDescription(this, h) ==
    IF In("error_description", Body(this, h))
       /\ TypeOf(Body(this, h)["error_description"]) = "string"
    THEN Return(Body(this, h)["error_description"])
    ELSE Throw(MissingOrInvalid, "error_description")

hasErrorURI(this, h) ==
    Return(Bool(In("error_uri", Body(this, h)) /\ TypeOf(Body(this, h)["error_uri"]) = "string"))

\* Mutant: the typeof test dropped.
errorURIUnchecked(this, h) ==
    IF In("error_uri", Body(this, h))
    THEN Return(Body(this, h)["error_uri"])
    ELSE Throw(MissingOrInvalid, "error_uri")

errorURI(this, h) ==
    IF In("error_uri", Body(this, h)) /\ TypeOf(Body(this, h)["error_uri"]) = "string"
    THEN Return(Body(this, h)["error_uri"])
    ELSE Throw(MissingOrInvalid, "error_uri")

hasState(this, h) ==
    Return(Bool(In("state", Body(this, h)) /\ TypeOf(Body(this, h)["state"]) = "string"))

state(this, h) ==
    IF In("state", Body(this, h)) /\ TypeOf(Body(this, h)["state"]) = "string"
    THEN Return(Body(this, h)["state"])
    ELSE Throw(MissingOrInvalid, "state")

(***************************************************************************)
(* TokenRequestResult                                                      *)
(***************************************************************************)
tokenType(this, h) ==
    IF In("token_type", Body(this, h)) /\ TypeOf(Body(this, h)["token_type"]) = "string"
    THEN Return(Body(this, h)["token_type"])
    ELSE Throw(MissingOrInvalid, "token_type")

accessToken(this, h) ==
    IF In("access_token", Body(this, h)) /\ TypeOf(Body(this, h)["access_token"]) = "string"
    THEN Return(Body(this, h)["access_token"])
    ELSE Throw(MissingOrInvalid, "access_token")

\* Mutant: any value of expires_in is handed back.
accessTokenExpiresInSecondsAnyType(this, h) ==
    IF In("expires_in", Body(this, h))
    THEN Return(Body(this, h)["expires_in"])
    ELSE Throw(MissingOrInvalid, "expires_in")

accessTokenExpiresInSeconds(this, h) ==
    IF In("expires_in", Body(this, h)) /\ TypeOf(Body(this, h)["expires_in"]) = "number"
    THEN Return(Body(this, h)["expires_in"])
    ELSE Throw(MissingOrInvalid, "expires_in")

hasRefreshToken(this, h) ==
    Return(Bool(In("refresh_token", Body(this, h))
                /\ TypeOf(Body(this, h)["refresh_token"]) = "string"))

refreshToken(this, h) ==
    IF In("refresh_token", Body(this, h)) /\ TypeOf(Body(this, h)["refresh_token"]) = "string"
    THEN Return(Body(this, h)["refresh_token"])
    ELSE Throw(MissingOrInvalid, "refresh_token")

\* Mutant: presence alone makes hasScopes() true.
hasScopesAnyType(this, h) == Return(Bool(In("scope", Body(this, h))))

hasScopes(this, h) ==
    Return(Bool(In("scope", Body(this, h)) /\ TypeOf(Body(this, h)["scope"]) = "string"))

\* Mutant: a split that drops the empty pieces.
RECURSIVE splitSkipEmpty(_, _)
splitSkipEmpty(s, sep) ==
    IF \A i \in 1..Len(s) : s[i] # sep
    THEN IF s = <<>> THEN <<>> ELSE <<s>>
    ELSE LET i == CHOOSE j \in 1..Len(s) : s[j] = sep /\ \A k \in 1..(j - 1) : s[k] # sep
         IN (IF i = 1 THEN <<>> ELSE <<SubSeq(s, 1, i - 1)>>)
            \o splitSkipEmpty(SubSeq(s, i + 1, Len(s)), sep)

\* String.prototype.split with a one-character separator.
RECURSIVE split(_, _)
split(s, sep) ==
    IF \A i \in 1..Len(s) : s[i] # sep
    THEN <<s>>
    ELSE LET i == CHOOSE j \in 1..Len(s) : s[j] = sep /\ \A k \in 1..(j - 1) : s[k] # sep
         IN <<SubSeq(s, 1, i - 1)>> \o split(SubSeq(s, i + 1, Len(s)), sep)

scopes(this, h) ==
    IF In("scope", Body(this, h)) /\ TypeOf(Body(this, h)["scope"]) = "string"
    THEN Return(Arr([i \in 1..Len(split(Body(this, h)["scope"].v, Space)) |->
                        Str(split(Body(this, h)["scope"].v, Space)[i])]))
    ELSE Throw(MissingOrInvalid, "scope")

(***************************************************************************)
(* DeviceAuthorizationRequestResult                                        *)
(***************************************************************************)
deviceCode(this, h) ==
    IF In("device_code", Body(this, h)) /\ TypeOf(Body(this, h)["device_code"]) = "string"
    THEN Return(Body(this, h)["device_code"])
    ELSE Throw(MissingOrInvalid, "device_code")

userCode(this, h) ==
    IF In("user_code", Body(this, h)) /\ TypeOf(Body(this, h)["user_code"]) = "string"
    THEN Return(Body(this, h)["user_code"])
    ELSE Throw(MissingOrInvalid, "user_code")

verificationURI(this, h) ==
    IF In("verification_uri", Body(this, h))
       /\ TypeOf(Body(this, h)["verification_uri"]) = "string"
    THEN Return(Body(this, h)["verification_uri"])
    ELSE Throw(MissingOrInvalid, "verification_uri")

codesExpireInSeconds(this, h) ==
    IF In("expires_in", Body(this, h)) /\ TypeOf(Body(this, h)["expires_in"]) = "number"
    THEN Return(Body(this, h)["expires_in"])
    ELSE Throw(MissingOrInvalid, "expires_in")

DefaultInterval == 5

\* Mutant: interval treated like every other required field.
intervalSecondsStrict(this, h) ==
    IF In("interval", Body(this, h)) /\ TypeOf(Body(this, h)["interval"]) = "number"
    THEN Return(Body(this, h)["interval"])
    ELSE Throw(MissingOrInvalid, "interval")

intervalSeconds(this, h) ==
    IF In("interval", Body(this, h))
    THEN IF TypeOf(Body(this, h)["interval"]) = "number"
         THEN Return(Body(this, h)["interval"])
         ELSE Throw(Invalid, "interval")
    ELSE Return(Num(DefaultInterval))

(***************************************************************************)
(* State.  heap: the objects, by reference.  result: the caller's wrapper  *)
(* (const result = new TokenRequestResult(data)).  clock: what Date.now()  *)
(* returns.  frame: the call in progress, if any: only the two ...At()     *)
(* methods take more than one step, Date.now() being evaluated before the  *)
(* right operand of +.  last: the call that completed last, its outcome    *)
(* and the clock values it read.                                           *)
(***************************************************************************)
NoFrame == [method |-> "none", now |-> 0]
NoCall == [method |-> "none", out |-> Return(Null), reads |-> <<>>]

InitOver(payloads) ==
    /\ heap \in {[r \in {Data} |-> p] : p \in payloads}
    /\ result = NoResult
    /\ clock = 0
    /\ frame = NoFrame
    /\ last = NoCall

Init == InitOver(Payloads)

\* new C(data): the wrapper replaces the one the caller held.
Construct(class) ==
    /\ frame = NoFrame
    /\ last' = [method |-> "constructor", out |-> constructor(class, Data, heap), reads |-> <<>>]
    /\ result' = IF constructor(class, Data, heap).ok
                 THEN constructor(class, Data, heap).val
                 ELSE result
    /\ UNCHANGED <<heap, clock, frame>>

New == \E class \in Classes : Construct(class)

IsResult == result.class \in Classes
IsToken == result.class = "TokenRequestResult"
IsDevice == result.class = "DeviceAuthorizationRequestResult"

\* Mutant: the method keeps what it computed in a property of the wrapper.
CallCaching(method, out) ==
    /\ frame = NoFrame
    /\ last' = [method |-> method, out |-> out, reads |-> <<>>]
    /\ result' = [result EXCEPT !.fields = [body |-> result.fields.body, cached |-> out]]
    /\ UNCHANGED <<heap, clock, frame>>

\* Mutant: the method empties the payload it has read.
CallConsuming(method, out) ==
    /\ frame = NoFrame
    /\ last' = [method |-> method, out |-> out, reads |-> <<>>]
    /\ heap' = [heap EXCEPT ![Data] = <<>>]
    /\ UNCHANGED <<result, clock, frame>>

\* A method that runs to completion in one step and assigns nothing.
Call(method, out) ==
    /\ frame = NoFrame
    /\ last' = [method |-> method, out |-> out, reads |-> <<>>]
    /\ UNCHANGED <<heap, result, clock, frame>>

HasErrorCode == IsResult /\ Call("hasErrorCode", hasErrorCode(result, heap))
ErrorCode == IsResult /\ Call("errorCode", errorCode(result, heap))
HasErrorDescription == IsResult /\ Call("hasErrorDescription", hasErrorDescription(result, heap))
ErrorDescription == IsResult /\ Call("errorDescription", errorDescription(result, heap))
HasErrorURI == IsResult /\ Call("hasErrorURI", hasErrorURI(result, heap))
ErrorURI == IsResult /\ Call("errorURI", errorURI(result, heap))
HasState == IsResult /\ Call("hasState", hasState(result, heap))
State == IsResult /\ Call("state", state(result, heap))

TokenType == IsToken /\ Call("tokenType", tokenType(result, heap))
AccessToken == IsToken /\ Call("accessToken", accessToken(result, heap))
AccessTokenExpiresInSeconds ==
    IsToken /\ Call("accessTokenExpiresInSeconds", accessTokenExpiresInSeconds(result, heap))
HasRefreshToken == IsToken /\ Call("hasRefreshToken", hasRefreshToken(result, heap))
RefreshToken == IsToken /\ Call("refreshToken", refreshToken(result, heap))
HasScopes == IsToken /\ Call("hasScopes", hasScopes(result, heap))
Scopes == IsToken /\ Call("scopes", scopes(result, heap))

DeviceCode == IsDevice /\ Call("deviceCode", deviceCode(result, heap))
UserCode == IsDevice /\ Call("userCode", userCode(result, heap))
VerificationURI == IsDevice /\ Call("verificationURI", verificationURI(result, heap))
CodesExpireInSeconds ==
    IsDevice /\ Call("codesExpireInSeconds", codesExpireInSeconds(result, heap))
IntervalSeconds == IsDevice /\ Call("intervalSeconds", intervalSeconds(result, heap))

(***************************************************************************)
(* new Date(Date.now() + this.accessTokenExpiresInSeconds() * 1000): the   *)
(* left operand Date.now() is evaluated first, then the method call, which *)
(* may throw, then the sum and the Date.                                   *)
(***************************************************************************)
\* Mutant: the time of construction stands in for the time of the call.
DateNowStale(method) ==
    /\ frame = NoFrame
    /\ frame' = [method |-> method, now |-> 0]
    /\ UNCHANGED <<heap, result, clock, last>>

DateNow(method) ==
    /\ frame = NoFrame
    /\ frame' = [method |-> method, now |-> clock]
    /\ UNCHANGED <<heap, result, clock, last>>

\* Mutant: a failure of ...InSeconds() is swallowed and now is returned.
expiresAtSwallowing(now, seconds) ==
    IF seconds.ok THEN Return(Date(now + seconds.val.v * 1000)) ELSE Return(Date(now))

\* The outcome of the expression once Date.now() has given now.
expiresAt(now, seconds) ==
    IF seconds.ok THEN Return(Date(now + seconds.val.v * 1000)) ELSE seconds

ExpiresAt(method, seconds) ==
    /\ frame.method = method
    /\ last' = [method |-> method, out |-> expiresAt(frame.now, seconds), reads |-> <<frame.now>>]
    /\ frame' = NoFrame
    /\ UNCHANGED <<heap, result, clock>>

AccessTokenExpiresAtNow == IsToken /\ DateNow("accessTokenExpiresAt")
AccessTokenExpiresAt ==
    ExpiresAt("accessTokenExpiresAt", accessTokenExpiresInSeconds(result, heap))

CodesExpireAtNow == IsDevice /\ DateNow("codesExpireAt")
CodesExpireAt == ExpiresAt("codesExpireAt", codesExpireInSeconds(result, heap))

\* Time passes, also while a call is in progress: by a millisecond or by a
\* second, at most MaxClock times each.
Tick ==
    /\ \E d \in {1, 1000} :
          /\ IF d = 1 THEN clock % 1000 < MaxClock ELSE clock \div 1000 < MaxClock
          /\ clock' = clock + d
    /\ UNCHANGED <<heap, result, frame, last>>

Next ==
    \/ New
    \/ HasErrorCode \/ ErrorCode
    \/ HasErrorDescription \/ ErrorDescription
    \/ HasErrorURI \/ ErrorURI
    \/ HasState \/ State
    \/ TokenType \/ AccessToken \/ AccessTokenExpiresInSeconds
    \/ AccessTokenExpiresAtNow \/ AccessTokenExpiresAt
    \/ HasRefreshToken \/ RefreshToken
    \/ HasScopes \/ Scopes
    \/ DeviceCode \/ UserCode \/ VerificationURI
    \/ CodesExpireInSeconds
    \/ CodesExpireAtNow \/ CodesExpireAt
    \/ IntervalSeconds

NextClock == Next \/ Tick

Spec == Init /\ [][Next]_vars

\* scope strings of every shape up to MaxLen characters.
InitScopes == InitOver(ScopePayloads)
SpecScopes == InitScopes /\ [][Next]_vars

\* expires_in of every type, with the clock running.
InitClock == InitOver(ExpiryPayloads)
SpecClock == InitClock /\ [][NextClock]_vars

(***************************************************************************)
(* What the claims speak of.                                               *)
(***************************************************************************)
Payload == heap[Data]

IsString(F) == F \in DOMAIN Payload /\ Payload[F].t = "string"
IsNumber(F) == F \in DOMAIN Payload /\ Payload[F].t = "number"

HasMethod ==
    [error |-> "hasErrorCode", error_description |-> "hasErrorDescription",
     error_uri |-> "hasErrorURI", state |-> "hasState",
     refresh_token |-> "hasRefreshToken", scope |-> "hasScopes"]

GetMethod ==
    [error |-> "errorCode", error_description |-> "errorDescription",
     error_uri |-> "errorURI", state |-> "state",
     refresh_token |-> "refreshToken", scope |-> "scopes"]

\* C1: for each base field F, hasF() returns true iff F is a key of the payload
\* holding a string, and never fails; the getter returns the payload's value
\* unmodified when hasF() is true and fails with the missing-or-invalid-field
\* error naming F otherwise.
C1_BaseFields ==
    \A F \in BaseKeys :
        /\ last.method = HasMethod[F] => last.out = Return(Bool(IsString(F)))
        /\ last.method = GetMethod[F] =>
              last.out = IF IsString(F) THEN Return(Payload[F])
                         ELSE Throw(MissingOrInvalid, F)

\* errorURI() has failed on a payload whose error_uri is present and null.
C1_Witness ==
    /\ last.method = "errorURI"
    /\ "error_uri" \in DOMAIN Payload
    /\ Payload["error_uri"] = Null
    /\ last.out = Throw(MissingOrInvalid, "error_uri")

\* C3: intervalSeconds() returns 5 when the key interval is absent, the value
\* unchanged when it is a number, and fails with the invalid-field error naming
\* interval when the key is present with any other value.
C3_IntervalPolicy ==
    last.method = "intervalSeconds" =>
        last.out = IF "interval" \notin DOMAIN Payload THEN Return(Num(5))
                   ELSE IF Payload["interval"].t = "number" THEN Return(Payload["interval"])
                   ELSE Throw(Invalid, "interval")

\* intervalSeconds() has returned the default on a payload without interval.
C3_Witness ==
    /\ last.method = "intervalSeconds"
    /\ "interval" \notin DOMAIN Payload
    /\ last.out = Return(Num(5))

RequiredString ==
    [tokenType |-> "token_type", accessToken |-> "access_token",
     refreshToken |-> "refresh_token", deviceCode |-> "device_code",
     userCode |-> "user_code", verificationURI |-> "verification_uri"]

RequiredNumber ==
    [accessTokenExpiresInSeconds |-> "expires_in", codesExpireInSeconds |-> "expires_in"]

\* C6: each variant-specific required accessor returns the payload's value
\* unchanged iff its field is present with the required type (string, or number
\* for the two ...InSeconds accessors) and otherwise fails with the
\* missing-or-invalid-field error naming exactly that field.
C6_RequiredAccessors ==
    /\ \A m \in DOMAIN RequiredString :
          last.method = m =>
              last.out = IF IsString(RequiredString[m]) THEN Return(Payload[RequiredString[m]])
                         ELSE Throw(MissingOrInvalid, RequiredString[m])
    /\ \A m \in DOMAIN RequiredNumber :
          last.method = m =>
              last.out = IF IsNumber(RequiredNumber[m]) THEN Return(Payload[RequiredNumber[m]])
                         ELSE Throw(MissingOrInvalid, RequiredNumber[m])

\* accessTokenExpiresInSeconds() has failed on expires_in given as a string.
C6_Witness ==
    /\ last.method = "accessTokenExpiresInSeconds"
    /\ IsString("expires_in")
    /\ last.out = Throw(MissingOrInvalid, "expires_in")

FieldRead ==
    [hasErrorCode |-> "error", errorCode |-> "error",
     hasErrorDescription |-> "error_description", errorDescription |-> "error_description",
     hasErrorURI |-> "error_uri", errorURI |-> "error_uri",
     hasState |-> "state", state |-> "state",
     tokenType |-> "token_type", accessToken |-> "access_token",
     accessTokenExpiresInSeconds |-> "expires_in", accessTokenExpiresAt |-> "expires_in",
     hasRefreshToken |-> "refresh_token", refreshToken |-> "refresh_token",
     hasScopes |-> "scope", scopes |-> "scope",
     deviceCode |-> "device_code", userCode |-> "user_code",
     verificationURI |-> "verification_uri",
     codesExpireInSeconds |-> "expires_in", codesExpireAt |-> "expires_in",
     intervalSeconds |-> "interval"]

\* C7: construction over any payload succeeds; a failure is of one of two kinds;
\* the invalid-field kind comes only from intervalSeconds() with interval present
\* and no number; every other failing accessor gives the missing-or-invalid-field
\* kind naming the field it reads.
C7_ErrorKinds ==
    /\ last.method = "constructor" =>
          /\ last.out.ok
          /\ result = last.out.val
          /\ result.fields.body = Data
    /\ ~last.out.ok =>
          /\ last.method \in DOMAIN FieldRead
          /\ last.out.field = FieldRead[last.method]
          /\ last.out.error \in {MissingOrInvalid, Invalid}
          /\ last.out.error = Invalid <=> last.method = "intervalSeconds"
          /\ last.method = "intervalSeconds" =>
                "interval" \in DOMAIN Payload /\ Payload["interval"].t # "number"

\* A device-authorization result was constructed over a payload that holds
\* nothing but an ill-typed interval, and only intervalSeconds() failed.
C7_Witness ==
    /\ result.class = "DeviceAuthorizationRequestResult"
    /\ DOMAIN Payload = {"interval"}
    /\ last.method = "intervalSeconds"
    /\ last.out = Throw(Invalid, "interval")

\* C8: no accessor call, successful or failing, changes the payload, the
\* wrapper's reference to it, or adds a property to the wrapper: the wrapper
\* holds body and nothing else.
C8_Immutable ==
    [][/\ heap' = heap
       /\ last'.method # "constructor" => result' = result
       /\ result'.class \in Classes => result'.fields = [body |-> Data]]_vars

\* scopes() has returned a freshly split array and the wrapper holds only body.
C8_Witness ==
    /\ last.method = "scopes"
    /\ last.out.ok
    /\ Len(last.out.val.v) > 1
    /\ result.fields = [body |-> Data]

Apply(m, this, h) ==
    CASE m = "hasErrorCode" -> hasErrorCode(this, h)
      [] m = "errorCode" -> errorCode(this, h)
      [] m = "hasErrorDescription" -> hasErrorDescription(this, h)
      [] m = "errorDescription" -> errorDescription(this, h)
      [] m = "hasErrorURI" -> hasErrorURI(this, h)
      [] m = "errorURI" -> errorURI(this, h)
      [] m = "hasState" -> hasState(this, h)
      [] m = "state" -> state(this, h)
      [] m = "tokenType" -> tokenType(this, h)
      [] m = "accessToken" -> accessToken(this, h)
      [] m = "accessTokenExpiresInSeconds" -> accessTokenExpiresInSeconds(this, h)
      [] m = "hasRefreshToken" -> hasRefreshToken(this, h)
      [] m = "refreshToken" -> refreshToken(this, h)
      [] m = "hasScopes" -> hasScopes(this, h)
      [] m = "scopes" -> scopes(this, h)
      [] m = "deviceCode" -> deviceCode(this, h)
      [] m = "userCode" -> userCode(this, h)
      [] m = "verificationURI" -> verificationURI(this, h)
      [] m = "codesExpireInSeconds" -> codesExpireInSeconds(this, h)
      [] m = "intervalSeconds" -> intervalSeconds(this, h)

ClockMethods == {"accessTokenExpiresAt", "codesExpireAt"}
PureMethods == DOMAIN FieldRead \ ClockMethods

C10_HasAgreesWithGet ==
    [][\A F \in DOMAIN HasMethod :
          /\ (last.method = HasMethod[F] /\ last'.method = GetMethod[F])
                => (last.out.val.v <=> last'.out.ok)
          /\ (last.method = GetMethod[F] /\ last'.method = HasMethod[F])
                => (last.out.ok <=> last'.out.val.v)]_vars

\* The spec's example payload: errorCode() has succeeded where hasErrorCode()
\* is true and the payload has no refresh_token.
C10_Witness ==
    /\ DOMAIN Payload = {"error", "error_description"}
    /\ IsString("error") /\ IsString("error_description")
    /\ last.method = "errorCode"
    /\ last.out = Return(Payload["error"])

RECURSIVE Join(_)
Join(parts) ==
    IF Len(parts) = 1 THEN parts[1].v
    ELSE parts[1].v \o <<Space>> \o Join(Tail(parts))

Spaces(S) == Cardinality({i \in 1..Len(S) : S[i] = Space})

\* C5: for a string scope S, scopes() returns the pieces of S between its
\* spaces, in order: one more piece than S has spaces, no piece holding a space,
\* the pieces joined by single spaces giving back S; "" gives [""] and "a  b"
\* gives ["a", "", "b"].  Without a string scope it fails with the
\* missing-or-invalid-field error naming scope.
C5_ScopesSplit ==
    last.method = "scopes" =>
        IF IsString("scope")
        THEN LET S == Payload["scope"].v
                 parts == last.out.val.v
             IN /\ last.out.ok
                /\ last.out.val = Arr(parts)
                /\ Len(parts) = Spaces(S) + 1
                /\ \A i \in 1..Len(parts) : parts[i].t = "string" /\ Spaces(parts[i].v) = 0
                /\ Join(parts) = S
                /\ S = <<>> => parts = <<Str(<<>>)>>
                /\ S = <<"a", Space, Space, "b">>
                      => parts = <<Str(<<"a">>), Str(<<>>), Str(<<"b">>)>>
        ELSE last.out = Throw(MissingOrInvalid, "scope")

\* scopes() has split "a  b", keeping the empty piece between the two spaces.
C5_Witness ==
    /\ last.method = "scopes"
    /\ IsString("scope")
    /\ Payload["scope"].v = <<"a", Space, Space, "b">>
    /\ last.out = Return(Arr(<<Str(<<"a">>), Str(<<>>), Str(<<"b">>)>>))

\* C2, as stated: without a numeric expires_in, accessTokenExpiresAt() and
\* codesExpireAt() fail with the missing-or-invalid-field error for expires_in
\* and no clock read precedes the failure.
C2_NoClockReadBeforeFailure ==
    (last.method \in ClockMethods /\ ~IsNumber("expires_in")) =>
        /\ last.out = Throw(MissingOrInvalid, "expires_in")
        /\ last.reads = <<>>

\* C2, amended: without a numeric expires_in, accessTokenExpiresAt() and
\* codesExpireAt() fail with the missing-or-invalid-field error for expires_in;
\* the clock is read once, before the failure, and no timestamp is returned.
C2_FailsAfterOneClockRead ==
    (last.method \in ClockMethods /\ ~IsNumber("expires_in")) =>
        /\ last.out = Throw(MissingOrInvalid, "expires_in")
        /\ Len(last.reads) = 1

\* codesExpireAt() has failed on a payload without expires_in, the clock having
\* been read at 1001 ms.
C2_Witness ==
    /\ last.method = "codesExpireAt"
    /\ "expires_in" \notin DOMAIN Payload
    /\ ~last.out.ok
    /\ last.reads = <<1001>>

\* C4: with a numeric expires_in = s, each call of accessTokenExpiresAt() or
\* codesExpireAt() returns the clock value it read plus s seconds, and the value
\* it read is the clock at the call, not an earlier one: two calls in a row
\* return timestamps as far apart as their clock readings.
C4_NowRelative ==
    [][/\ (frame = NoFrame /\ frame' # NoFrame) => frame'.now = clock
       /\ (frame.method \in ClockMethods /\ frame' = NoFrame /\ IsNumber("expires_in")) =>
             /\ last'.method = frame.method
             /\ last'.reads = <<frame.now>>
             /\ last'.out = Return(Date(frame.now + Payload["expires_in"].v * 1000))
             /\ (last.method = last'.method /\ last.out.ok) =>
                   last'.out.val.v - last.out.val.v = last'.reads[1] - last.reads[1]]_vars

\* accessTokenExpiresAt() on {expires_in: 3600}, called one second after the
\* clock's origin, has returned that second plus 3600 seconds.
C4_Witness ==
    /\ last.method = "accessTokenExpiresAt"
    /\ IsNumber("expires_in")
    /\ Payload["expires_in"] = Num(3600)
    /\ last.reads = <<1000>>
    /\ last.out = Return(Date(3601000))

====
